---- MODULE Spec2Model ----
(***************************************************************************)
(* Model of the FedPro protocol engine of the Python Federate Protocol     *)
(* client: FedProMsgHandler (libsrc/fedProWrapper/fedProMessageHandler.py),*)
(* the callback handlers of FederateAmbassadorFedPro, the message classes  *)
(* of libsrc/fedPro and the connect / call / evoke_callback entry points   *)
(* of RtiAmbassadorFedPro.                                                 *)
(*                                                                         *)
(* The engine is single threaded.  The host program is either between two  *)
(* engine calls (pc = "host"), blocked inside read_and_process waiting for *)
(* the next frame (pc = "read"), or inside a FederateAmbassador method     *)
(* that the engine invoked (pc = "amb").  The peer (the RTI bridge)        *)
(* numbers its frames consecutively, answers every request at most once    *)
(* and may send CallbackRequests at any time.                              *)
(***************************************************************************)
EXTENDS Integers, Sequences, FiniteSets, TLC

\* ------------------------------------------------------------------ bounds
MaxPeerSeq == 5      \* the peer sends at most this many frames
MaxHostCalls == 3    \* engine calls the host issues while nothing is queued
MaxReadErrors == 1   \* socket reads that raise OSError
MaxNesting == 1      \* facade calls in progress inside ambassador methods
MaxFrames == 2       \* frames on their way to the socket
MaxGetCalls == 4     \* calls of MsgSocket.get_message

\* ------------------------------------------------- fedProMessage.MsgType
UNKNOWN == 0
CTRL_NEW_SESSION == 1
CTRL_NEW_SESSION_STATUS == 2
CTRL_HEARTBEAT == 3
CTRL_HEARTBEAT_RESPONSE == 4
CTRL_TERMINATE_SESSION == 6
CTRL_SESSION_TERMINATED == 7
CTRL_RESUME_REQUEST == 10
CTRL_RESUME_STATUS == 11
HLA_CALL_REQUEST == 20
HLA_CALL_RESPONSE == 21
HLA_CALLBACK_REQUEST == 22
HLA_CALLBACK_RESPONSE == 23
INVALID == 99

\* newSessionStatusMessage.SessionStatus
SESSION_UNSET == -1
SESSION_SUCCESS == 0
SESSION_INTERNAL_ERROR == 99

\* Field numbers of the CallResponse union the engine refers to.
EXCEPTIONDATA_FIELD_NUMBER == 1
CONNECTWITHCONFIGURATIONRESPONSE_FIELD_NUMBER == 3
CREATEFEDERATIONEXECUTIONWITHMODULESRESPONSE_FIELD_NUMBER == 8
GETOBJECTCLASSHANDLERESPONSE_FIELD_NUMBER == 40
GETATTRIBUTEHANDLERESPONSE_FIELD_NUMBER == 42
UPDATEATTRIBUTEVALUESRESPONSE_FIELD_NUMBER == 70
\* Response tags of the facade services the host calls: the service whose
\* tag is numerically CTRL_HEARTBEAT_RESPONSE, and any other service.
FacadeTags == {4}

\* Session ids the server may assign.
SessionIds == {7}

\* CallbackRequest variants: connection_lost has no try/except around the
\* ambassador call, discover_object_instance has one, and a variant that
\* was never registered is routed to unknown_callback.
CbKinds == {"connectionLost", "discoverObjectInstance", "unregistered"}

\* What a FederateAmbassador method may do: return, or raise an exception
\* that read_and_process catches (AttributeError) or one it does not.
AmbOutcomes == {"return", "AttributeError", "ValueError"}

\* except (OSError, ConnectionError, AttributeError) of read_and_process.
\* FedProMessageError (libsrc/rtiUtil/exception.py) is taken to derive from
\* none of them, like RTIinternalError, which derives from BaseException.
CaughtByReadAndProcess == {"OSError", "ConnectionError", "AttributeError"}

\* The federation's object model: one object class, which the RTI knows
\* under its short and under its fully qualified name, with one attribute.
ClassNames == {"Ball", "HLAobjectRoot.Ball"}

AttrNames == {"Color"}

\* Handles are byte strings (HandleType(bytes)), compared and hashed by
\* content; 0 stands for the empty byte string that an unset protobuf
\* field decodes to.
ClassHandles == {1}

AttrHandles == {7}

ClassHandleValues == ClassHandles \cup {0}

AttrHandleValues == AttrHandles \cup {0}

\* What dict.get returns for a missing key.
None == -1

VARIABLES handler, rti, my_data, pc, reader, caller, call_args,
          message_count, cur_cb, stack, wire, peer, g, sock

vars == <<handler, rti, my_data, pc, reader, caller, call_args,
          message_count, cur_cb, stack, wire, peer, g, sock>>

\* ------------------------------------------------------------ messages
\* An inbound frame.  re is a ghost: the number of the request the peer
\* answers with it (0 for a frame that answers nothing).
InFrame(mtype, seq, sid, hla, cb, status, re) ==
    [my_msg_type |-> mtype, my_sequence_num |-> seq, my_session_id |-> sid,
     my_hla_msg_type |-> hla, cb |-> cb, my_status |-> status,
     exceptionName |-> "", result |-> 0, re |-> re]

\* A CallResponse whose payload is exceptionData with the given name.
ExceptionResponse(seq, sid, name, re) ==
    [InFrame(HLA_CALL_RESPONSE, seq, sid, EXCEPTIONDATA_FIELD_NUMBER, "",
             SESSION_UNSET, re)
        EXCEPT !.exceptionName = name]

\* NewSessionStatusMessage(): the initial value of my_fedPro_response.
DefaultNewSessionStatus ==
    InFrame(CTRL_NEW_SESSION_STATUS, 0, 0, 0, "", SESSION_INTERNAL_ERROR, 0)

NoFrame == InFrame(UNKNOWN, 0, 0, 0, "", SESSION_UNSET, 0)

\* FedProMessage.__init__ and the subclasses' constructors (outbound).
OutMsg(mtype, size, version, request, succeeded, response_type) ==
    [my_msg_type |-> mtype, my_msg_size |-> size, my_session_id |-> 0,
     my_sequence_num |-> 0, my_last_received_msg |-> 0,
     my_protocol_version |-> version, my_request_type |-> request,
     my_succeeded |-> succeeded, my_response_type |-> response_type,
     my_response_data |-> <<>>]

NewSessionMessage == OutMsg(CTRL_NEW_SESSION, 28, 1, 0, TRUE, 0)

HeartbeatMessage == OutMsg(CTRL_HEARTBEAT, 24, 0, 0, TRUE, 0)

\* The payload is the request union; its tag stands for the service.
CallRequestMessage(tag) == OutMsg(HLA_CALL_REQUEST, 24 + 1, 0, tag, TRUE, 0)

\* __init__ + set_response_data: my_response_data is a fresh, empty
\* CallbackResponse() in both branches; only my_response_type differs.
CallbackResponseMessage(sequence_num, succeeded) ==
    [OutMsg(HLA_CALLBACK_RESPONSE, 24, 0, 0, succeeded,
            IF succeeded THEN 0 ELSE 1)
        EXCEPT !.my_sequence_num = sequence_num]

\* struct.calcsize of a big-endian format: I packs 4 bytes, Q packs 8.
RECURSIVE calcsize(_)
calcsize(format) ==
    IF format = <<>> THEN 0
    ELSE (IF format[1] = "Q" THEN 8 ELSE 4) + calcsize(SubSeq(format, 2, Len(format)))

\* NewSessionMessage.to_bytes packs package_bytes()[0] + 'I'.
NewSessionFormat == <<"I", "I", "Q", "Q", "I">>

\* to_bytes of each outbound class, as the tuple of the packed fields.
to_bytes(m) ==
    CASE m.my_msg_type = HLA_CALLBACK_RESPONSE ->
            <<m.my_msg_size, m.my_sequence_num, m.my_session_id,
              m.my_last_received_msg, m.my_msg_type>> \o m.my_response_data
      [] m.my_msg_type = HLA_CALL_REQUEST ->
            <<m.my_msg_size, m.my_sequence_num, m.my_session_id,
              m.my_last_received_msg, m.my_msg_type, m.my_request_type>>
      [] m.my_msg_type = CTRL_NEW_SESSION ->
            <<m.my_msg_size, m.my_sequence_num, m.my_session_id,
              m.my_msg_type, m.my_protocol_version>>
      [] OTHER ->
            <<m.my_msg_size, m.my_sequence_num, m.my_session_id, m.my_msg_type>>

\* ------------------------------------------------------------- initial
InitHandler ==
    [my_socket |-> FALSE,
     my_session_id |-> 0,
     my_sequence_num |-> 0,
     my_session_status |-> SESSION_UNSET,
     my_last_received_message_number |-> 0,
     my_enable_callback_requests |-> TRUE,
     my_is_connection_ok |-> FALSE,
     my_poll_result |-> -2,
     my_queue_callback_requests |-> TRUE,
     my_expected_response_request_number |-> 0,
     my_expected_response_type |-> UNKNOWN,
     my_callback_request_queue |-> <<>>,
     my_fedPro_response |-> DefaultNewSessionStatus,
     federate_ambassador_handler |-> FALSE]

InitRti ==
    [rti_connection |-> FALSE, my_is_connection_ok |-> FALSE,
     my_obj_name_handles |-> [n \in ClassNames |-> None],
     my_obj_handle_names |-> [c \in ClassHandleValues |-> ""]]

\* A missing entry of my_attr_name_handles / my_attr_handle_names, and the
\* empty dict that get_object_class_handle stores.
NoAttrMap(present) ==
    [present |-> present, map |-> [a \in AttrNames |-> None]]

NoAttrNames(present) ==
    [present |-> present, map |-> [a \in AttrHandleValues |-> ""]]

\* FederateData.__init__: the flags are False, the list and every dict
\* empty.  my_object_instance_classes is modelled by its set of keys.
InitData ==
    [my_connection_lost |-> FALSE,
     my_federate_resigned |-> FALSE,
     my_federate_executions |-> <<>>,
     my_attr_name_handles |-> [c \in ClassHandleValues |-> NoAttrMap(FALSE)],
     my_attr_handle_names |-> [c \in ClassHandleValues |-> NoAttrNames(FALSE)],
     my_object_instance_classes |-> {}]

\* FederateData.clear: the flags are set to False and the dicts of object
\* instances are emptied with dict.clear(); my_federate_executions,
\* my_attr_name_handles and my_attr_handle_names are not assigned.
clear(d) ==
    [d EXCEPT !.my_connection_lost = FALSE,
              !.my_federate_resigned = FALSE,
              !.my_object_instance_classes = {}]

\* The arguments of the facade method that is executing.
NoArgs == [object_class_name |-> "", class_handle |-> 0, attr_name |-> ""]

NoCall == [op |-> "none", name |-> "", class_handle |-> 0]

NoMatch == [re |-> 0, seq |-> 0]

NoRequest == [seq |-> -1, sid |-> 0]

NoCompleted == [req |-> 0, re |-> 0, seq |-> 0, req_seq |-> 0]

\* MsgSocket.__init__: nothing received yet.  stream holds the bytes that
\* are still to arrive and sent the frames they encode; ret and exc are
\* what the last get_message returned or raised, delivered the messages
\* get_message has returned so far.
NoMessage ==
    [my_msg_type |-> UNKNOWN, my_msg_size |-> 0, my_sequence_num |-> 0,
     my_session_id |-> 0, my_last_received_msg |-> 0, my_payload |-> <<>>]

NoSock ==
    [stream |-> <<>>, sent |-> <<>>, my_recv_buffer |-> <<>>,
     ret |-> NoMessage, exc |-> "none", delivered |-> <<>>, calls |-> 0]

\* History the properties refer to; the engine never reads it.
InitGhost ==
    [host_result |-> "none",     \* how the last host-level call ended
     timed_out |-> FALSE,        \* a read deadline elapsed in the current poll
     host_calls |-> 0,           \* engine calls the host issued
     read_errors |-> 0,          \* socket reads that raised
     requests |-> 0,             \* requests sent so far
     cur_req |-> 0,              \* number of the pending request
     req_seq |-> [prev |-> NoRequest, last |-> NoRequest],
                                 \* header of the last two requests sent
     match |-> NoMatch,          \* frame that cleared the expectation
     completed |-> NoCompleted,  \* the send_and_wait that last returned True
     call |-> NoCall,            \* the last handle lookup the host issued
     value |-> None,             \* the handle it returned
     unacked |-> 0]              \* sequence of a dispatched, unanswered callback

Init ==
    /\ handler = InitHandler
    /\ rti = InitRti
    /\ my_data = InitData
    /\ pc = "host"
    /\ reader = "none"
    /\ caller = "none"
    /\ call_args = NoArgs
    /\ message_count = 0
    /\ cur_cb = NoFrame
    /\ stack = <<>>
    /\ wire = <<>>
    /\ peer = [seq |-> 0, sid |-> 0, open |-> {}, first |-> 0,
               terminated |-> FALSE,
                   resume |-> FALSE]
    /\ g = InitGhost
    /\ sock = NoSock

\* The engine's side of the state as one record, so that the code paths
\* can be written as functions from state to state.  wire collects the
\* frames the engine writes to the socket during the step.
Cur ==
    [h |-> handler, rti |-> rti, my_data |-> my_data, pc |-> pc,
     reader |-> reader, caller |-> caller, call_args |-> call_args,
     message_count |-> message_count, cur_cb |-> cur_cb,
     stack |-> stack, wire |-> <<>>, g |-> g]

Commit(m) ==
    /\ handler' = m.h
    /\ rti' = m.rti
    /\ my_data' = m.my_data
    /\ pc' = m.pc
    /\ reader' = m.reader
    /\ caller' = m.caller
    /\ call_args' = m.call_args
    /\ message_count' = m.message_count
    /\ cur_cb' = m.cur_cb
    /\ stack' = m.stack
    /\ wire' = m.wire
    /\ g' = m.g
    /\ sock' = sock

\* ------------------------------------------------- FedProMsgHandler
is_connected(h) == h.my_is_connection_ok /\ h.my_socket

\* CPython's "is" on two separately created ints: identity holds only
\* inside the small-int cache.
IntIs(a, b) == a = b /\ a >= -5 /\ a <= 256

\* A send_message that leaves the session id of the request as constructed.
send_message_without_session_id(h, request, sending_callback_response) ==
    LET filled ==
            [request EXCEPT
                !.my_sequence_num =
                    IF sending_callback_response THEN @ ELSE h.my_sequence_num,
                !.my_last_received_msg = h.my_last_received_message_number]
    IN  IF is_connected(h)
        THEN [out |-> <<filled>>, ret |-> 1]
        ELSE [out |-> <<>>, ret |-> -1]

\* A send_message that hands the frame to the socket whatever the
\* connection status is.
send_message_unconnected(h, request, sending_callback_response) ==
    [out |-> <<[request EXCEPT
                    !.my_session_id = h.my_session_id,
                    !.my_sequence_num =
                        IF sending_callback_response THEN @
                        ELSE h.my_sequence_num,
                    !.my_last_received_msg =
                        h.my_last_received_message_number]>>,
     ret |-> 1]

\* send_message: fills in the header; ret is -1 when not connected.
send_message(h, request, sending_callback_response) ==
    LET filled ==
            [request EXCEPT
                !.my_session_id = h.my_session_id,
                !.my_sequence_num =
                    IF sending_callback_response THEN @ ELSE h.my_sequence_num,
                !.my_last_received_msg = h.my_last_received_message_number]
    IN  IF is_connected(h)
        THEN [out |-> <<filled>>, ret |-> 1]
        ELSE [out |-> <<>>, ret |-> -1]

\* The Python frames of an ambassador method inside which a facade call is
\* in progress: the locals of the read_and_process that dispatched the
\* callback and of its callers.
Suspended(m) ==
    [reader |-> m.reader, caller |-> m.caller, cur_cb |-> m.cur_cb,
     message_count |-> m.message_count, cur_req |-> m.g.cur_req,
     match |-> m.g.match, timed_out |-> m.g.timed_out]

\* A facade call issued by an ambassador method is over: control is back
\* in that method, whether the call returned or raised.
Resume(m) ==
    LET top == m.stack[Len(m.stack)] IN
    [m EXCEPT !.pc = "amb", !.reader = top.reader, !.caller = top.caller,
              !.cur_cb = top.cur_cb, !.message_count = top.message_count,
              !.g.cur_req = top.cur_req, !.g.match = top.match,
              !.g.timed_out = top.timed_out,
              !.stack = SubSeq(@, 1, Len(@) - 1)]

\* An exception that leaves the engine reaches the program that called it:
\* no frame of the call stack (evoke_callback, poll_for_call_response,
\* send_and_wait, connect, the facade method) has a finally clause or
\* restores anything.
Raise(m, exc) ==
    IF m.stack # <<>> THEN Resume(m) ELSE
    [m EXCEPT !.pc = "host", !.reader = "none", !.caller = "none",
              !.call_args = NoArgs,
              !.cur_cb = NoFrame, !.message_count = 0,
              !.g.host_result = exc, !.g.timed_out = FALSE,
              !.g.call = NoCall,
              !.g.cur_req = 0, !.g.match = NoMatch]

Return(m, result) ==
    IF m.stack # <<>> THEN Resume(m) ELSE
    [m EXCEPT !.pc = "host", !.reader = "none", !.caller = "none",
              !.call_args = NoArgs,
              !.cur_cb = NoFrame, !.message_count = 0,
              !.g.host_result = result, !.g.timed_out = FALSE,
              !.g.cur_req = 0, !.g.match = NoMatch]

\* The host program enters the engine: the history of its previous call
\* is dropped.
Enter(m) ==
    [m EXCEPT !.g.host_result = "running", !.g.completed = NoCompleted,
              !.g.unacked = 0, !.g.call = NoCall, !.g.value = None,
              !.g.host_calls = IF @ < MaxHostCalls THEN @ + 1 ELSE @]

\* send_and_wait up to the point where poll_for_call_response blocks in its
\* first read_and_process.  After a successful send the handler is
\* connected, so that read_and_process enters its loop.
send_and_wait(m, request, expected_response_type, who) ==
    LET s == send_message(m.h, request, FALSE) IN
    IF s.ret = -1
    THEN Raise(m, "FedProMessageError")
    ELSE [m EXCEPT
            !.wire = @ \o s.out,
            !.h.my_expected_response_request_number =
                m.h.my_last_received_message_number + 1,
            !.h.my_expected_response_type = expected_response_type,
            !.pc = "read", !.reader = "poll", !.caller = who,
            !.message_count = 0, !.cur_cb = NoFrame,
            !.g.requests = @ + 1,
            !.g.cur_req = m.g.requests + 1,
            !.g.req_seq = [prev |-> @.last,
                           last |-> [seq |-> s.out[1].my_sequence_num,
                                     sid |-> s.out[1].my_session_id]],
            !.g.timed_out = FALSE,
            !.g.match = NoMatch]

\* The facade decodes my_fedPro_response.my_response_buf, an attribute only
\* CallResponseMessage objects have.
DecodeResponse(m) ==
    IF m.h.my_fedPro_response.my_msg_type = HLA_CALL_RESPONSE
    THEN Return(m, "ok")
    ELSE Raise(m, "AttributeError")

\* A handle lookup returns handle value to its caller.
ReturnHandle(m, value) ==
    Return([m EXCEPT !.g.value = IF m.stack = <<>> THEN value ELSE @], "ok")

\* my_fedPro_response.my_response_buf.<field>.result.data: the field of a
\* protobuf response that holds another variant reads as the empty default.
ResultData(m, tag) ==
    IF m.h.my_fedPro_response.my_hla_msg_type = tag
    THEN m.h.my_fedPro_response.result
    ELSE 0

\* get_object_class_handle 268-285, after send_and_wait returned ok.
object_class_handle_received(m, ok) ==
    IF ~ok THEN Raise(m, "RTIinternalError")
    ELSE IF m.h.my_fedPro_response.my_msg_type # HLA_CALL_RESPONSE
    THEN Raise(m, "AttributeError")
    ELSE
    LET object_class_name == m.call_args.object_class_name
        object_class_handle ==
            ResultData(m, GETOBJECTCLASSHANDLERESPONSE_FIELD_NUMBER)
        m1 == [m EXCEPT
                !.rti.my_obj_name_handles[object_class_name] =
                    object_class_handle,
                !.rti.my_obj_handle_names[object_class_handle] =
                    object_class_name]
    IN  IF ~m.h.federate_ambassador_handler
        THEN \* 272: the attribute was never assigned
             Raise(m1, "AttributeError")
        ELSE ReturnHandle(
                [m1 EXCEPT
                    !.my_data.my_attr_handle_names[object_class_handle] =
                        NoAttrNames(TRUE),
                    !.my_data.my_attr_name_handles[object_class_handle] =
                        NoAttrMap(TRUE)],
                object_class_handle)

\* A get_attribute_handle that stores what the last response holds before
\* it looks at the result of send_and_wait.
attribute_handle_received_storing_first(m, ok) ==
    LET class_handle == m.call_args.class_handle
        attr_name == m.call_args.attr_name
        attribute_handle ==
            ResultData(m, GETATTRIBUTEHANDLERESPONSE_FIELD_NUMBER)
    IN  IF ~m.my_data.my_attr_handle_names[class_handle].present
        THEN Raise(m, "KeyError")
        ELSE LET m1 == [m EXCEPT
                          !.my_data.my_attr_handle_names[class_handle]
                              .map[attribute_handle] = attr_name,
                          !.my_data.my_attr_name_handles[class_handle]
                              .map[attr_name] = attribute_handle]
             IN  IF ok THEN ReturnHandle(m1, attribute_handle)
                 ELSE Raise(m1, "RTIinternalError")

\* get_attribute_handle 318-333, after send_and_wait returned ok.
attribute_handle_received(m, ok) ==
    IF ~ok THEN Raise(m, "RTIinternalError")
    ELSE IF m.h.my_fedPro_response.my_msg_type # HLA_CALL_RESPONSE
    THEN Raise(m, "AttributeError")
    ELSE
    LET class_handle == m.call_args.class_handle
        attr_name == m.call_args.attr_name
        attribute_handle ==
            ResultData(m, GETATTRIBUTEHANDLERESPONSE_FIELD_NUMBER)
    IN  IF ~m.my_data.my_attr_handle_names[class_handle].present
        THEN \* 323: my_attr_handle_names[class_handle] is missing
             Raise(m, "KeyError")
        ELSE IF ~m.my_data.my_attr_name_handles[class_handle].present
        THEN Raise([m EXCEPT
                      !.my_data.my_attr_handle_names[class_handle]
                            .map[attribute_handle] = attr_name],
                   "KeyError")
        ELSE ReturnHandle(
                [m EXCEPT
                    !.my_data.my_attr_handle_names[class_handle]
                        .map[attribute_handle] = attr_name,
                    !.my_data.my_attr_name_handles[class_handle]
                        .map[attr_name] = attribute_handle],
                attribute_handle)

\* What the caller of send_and_wait does with its result.
after_send_and_wait(m, ok) ==
    CASE m.caller = "initializeSession" ->
            \* initializeSession 129-135, then connect 83-88
            LET m1 == IF ok
                      THEN [m EXCEPT
                              !.h.my_session_id =
                                  m.h.my_fedPro_response.my_session_id,
                              !.h.federate_ambassador_handler = TRUE]
                      ELSE m
            IN  send_and_wait(m1, HeartbeatMessage, CTRL_HEARTBEAT_RESPONSE,
                              "connect_heartbeat")
      [] m.caller = "connect_heartbeat" ->
            \* connect 90-100
            send_and_wait(m,
                CallRequestMessage(CONNECTWITHCONFIGURATIONRESPONSE_FIELD_NUMBER),
                CONNECTWITHCONFIGURATIONRESPONSE_FIELD_NUMBER, "connect")
      [] m.caller = "connect" ->
            \* connect 100-112
            IF ok
            THEN DecodeResponse([m EXCEPT !.rti.rti_connection = TRUE,
                                          !.rti.my_is_connection_ok = TRUE])
            ELSE Raise([m EXCEPT !.rti.rti_connection = FALSE,
                                 !.rti.my_is_connection_ok = FALSE],
                       "RTIinternalError")
      [] m.caller = "create_fed_ex" ->
            \* create_fed_ex 149-161
            IF ok
            THEN Return(m, "ok")
            ELSE IF m.h.my_poll_result # -1
            THEN Raise(m, "RTIinternalError")
            ELSE IF m.h.my_fedPro_response.my_msg_type # HLA_CALL_RESPONSE
            THEN Raise(m, "AttributeError")
            ELSE IF m.h.my_fedPro_response.exceptionName =
                        "FederationExecutionAlreadyExists"
            THEN Return(m, "ok")
            ELSE Raise(m, "RTIinternalError")
      [] m.caller = "get_object_class_handle" ->
            object_class_handle_received(m, ok)
      [] m.caller = "get_attribute_handle" ->
            attribute_handle_received(m, ok)
      [] m.caller = "update_attribute_values" ->
            \* update_attribute_values 1072-1081
            IF ok THEN Return(m, "ok") ELSE Raise(m, "RTIinternalError")
      [] m.caller = "destroy_federation_execution" ->
            \* destroy_federation_execution 678-683: send_and_wait returns
            \* a bool, which is never None
            Return(m, "ok")
      [] OTHER ->
            \* register_object_instance 635-649
            IF ok THEN DecodeResponse(m) ELSE Raise(m, "RTIinternalError")

\* poll_for_call_response 191-205 and the return of send_and_wait.
poll_finish(m, got_response) ==
    LET result ==
            IF m.h.my_expected_response_type = EXCEPTIONDATA_FIELD_NUMBER
            THEN -1
            ELSE IF got_response THEN 1 ELSE 0
        m1 == [m EXCEPT
                !.h.my_poll_result = result,
                !.h.my_expected_response_request_number = 0,
                !.h.my_expected_response_type = UNKNOWN,
                !.g.completed =
                    IF result = 1
                    THEN [req |-> m.g.cur_req, re |-> m.g.match.re,
                          seq |-> m.g.match.seq,
                          req_seq |-> m.g.req_seq.last.seq]
                    ELSE @]
    IN  after_send_and_wait(m1, result > 0)

\* poll_for_call_response 185-189: what happens when read_and_process
\* returns n to the polling loop.
poll_loop(m, n) ==
    LET read_ok == n >= 0
        got_response ==
            \/ m.h.my_expected_response_type = UNKNOWN
            \/ m.h.my_expected_response_type = EXCEPTIONDATA_FIELD_NUMBER
    IN  IF read_ok /\ ~got_response /\ is_connected(m.h)
        THEN [m EXCEPT !.pc = "read", !.message_count = 0]
        ELSE poll_finish(m, got_response)

\* evoke_callback 1104-1107.
evoke_finish(m, n) ==
    Return([m EXCEPT !.h.my_queue_callback_requests = TRUE], "evoked")

\* read_and_process returned n to whoever called it.
after_read(m, n) ==
    IF m.reader = "evoke" THEN evoke_finish(m, n) ELSE poll_loop(m, n)

\* ------------------------------------------------------ frame handlers
\* Each handler maps the handler object and a frame to the new handler
\* object, the truthiness of what it returns (None is falsy), the exception
\* it raises ("none" if it returns) and whether it cleared the expectation.
\* The message object the engine keeps a reference to: the frame without
\* the ghost and without the callback payload, which nothing decodes a
\* second time.
Stored(message) == [message EXCEPT !.re = 0, !.cb = ""]

Handled(h, ret, exc, matched) ==
    [h |-> h, ret |-> ret, exc |-> exc, matched |-> matched]

ClearExpectation(h) ==
    [h EXCEPT !.my_expected_response_request_number = 0,
              !.my_expected_response_type = UNKNOWN]

process_heartbeat_response(h, heartbeat) ==
    LET h1 == [h EXCEPT !.my_fedPro_response = Stored(heartbeat)] IN
    IF /\ h1.my_expected_response_type = heartbeat.my_msg_type
       /\ h1.my_expected_response_request_number = heartbeat.my_sequence_num
    THEN Handled(ClearExpectation(h1), FALSE, "none", TRUE)
    ELSE Handled(h1, FALSE, "none", FALSE)

process_new_session_status(h, newsession) ==
    LET h1 == [h EXCEPT !.my_fedPro_response = Stored(newsession),
                        !.my_session_id = newsession.my_session_id,
                        !.my_session_status = newsession.my_status]
    IN  IF /\ h1.my_expected_response_type = newsession.my_msg_type
           /\ h1.my_expected_response_request_number = newsession.my_sequence_num
        THEN Handled(ClearExpectation(h1), TRUE, "none", TRUE)
        ELSE IF h1.my_expected_response_type = UNKNOWN
        THEN Handled(h1, FALSE, "FedProMessageError", FALSE)
        ELSE Handled(h1, FALSE, "none", FALSE)

\* A process_call_response that completes the pending call with whatever
\* CallResponse arrives.
process_call_response_accepting_any(h, callresponse) ==
    LET h1 == [h EXCEPT !.my_fedPro_response = Stored(callresponse)] IN
    IF h1.my_expected_response_type = UNKNOWN
    THEN Handled(h1, FALSE, "FedProMessageError", FALSE)
    ELSE Handled(ClearExpectation(h1), TRUE, "none", TRUE)

process_call_response(h, callresponse) ==
    LET h1 == [h EXCEPT !.my_fedPro_response = Stored(callresponse)] IN
    IF /\ callresponse.my_hla_msg_type > 1
       /\ h1.my_expected_response_type = callresponse.my_hla_msg_type
       /\ h1.my_expected_response_request_number = callresponse.my_sequence_num
    THEN Handled(ClearExpectation(h1), TRUE, "none", TRUE)
    ELSE IF h1.my_expected_response_type = UNKNOWN
    THEN Handled(h1, FALSE, "FedProMessageError", FALSE)
    ELSE IF IntIs(callresponse.my_hla_msg_type, EXCEPTIONDATA_FIELD_NUMBER)
    THEN IF IntIs(callresponse.my_sequence_num,
                  h1.my_expected_response_request_number)
         THEN Handled([h1 EXCEPT !.my_expected_response_type =
                                     EXCEPTIONDATA_FIELD_NUMBER],
                      FALSE, "none", FALSE)
         ELSE Handled(h1, FALSE, "none", FALSE)
    ELSE Handled(h1, FALSE, "none", FALSE)

\* process_callback_request without the test of my_queue_callback_requests.
process_callback_request_always_dispatch(h, callbackrequest) ==
    LET h1 == [h EXCEPT !.my_fedPro_response = Stored(callbackrequest)] IN
    IF h1.federate_ambassador_handler
    THEN [h |-> [h1 EXCEPT !.my_sequence_num = callbackrequest.my_sequence_num],
          way |-> "dispatch"]
    ELSE [h |-> h1, way |-> "no_ambassador"]

\* process_callback_request up to the call of handle_callback_request.
\* way is "queued", "dispatch" (handle_callback_request is entered) or
\* "no_ambassador" (the attribute federate_ambassador_handler was never
\* assigned: AttributeError).
process_callback_request(h, callbackrequest) ==
    LET h1 == [h EXCEPT !.my_fedPro_response = Stored(callbackrequest)] IN
    IF h1.my_queue_callback_requests
    THEN [h |-> [h1 EXCEPT
                    !.my_callback_request_queue =
                        Append(@, Stored(callbackrequest)),
                    !.my_expected_response_request_number =
                        callbackrequest.my_sequence_num + 1],
          way |-> "queued"]
    ELSE IF h1.federate_ambassador_handler
    THEN [h |-> [h1 EXCEPT !.my_sequence_num = callbackrequest.my_sequence_num],
          way |-> "dispatch"]
    ELSE [h |-> h1, way |-> "no_ambassador"]

\* my_callback_functions as filled by FederateAmbassadorFedPro.__init__;
\* every other variant is looked up as -99, unknown_callback.
RegisteredCallbacks == {"connectionLost", "discoverObjectInstance"}

\* send_callback_response: the frame goes out with the callback's sequence.
send_callback_response(m, sequence_number, succeded) ==
    LET s == send_message(m.h, CallbackResponseMessage(sequence_number, succeded),
                          TRUE)
    IN  [m EXCEPT !.wire = @ \o s.out,
                  !.g.unacked = IF /\ s.ret = 1
                                   /\ @ = sequence_number
                                THEN 0 ELSE @]

\* read_and_process 403-406 and the except clause 407-409, after the
\* handler of a frame returned ret or raised exc.
after_handler(m, ret, exc) ==
    IF exc # "none"
    THEN IF exc \in CaughtByReadAndProcess
         THEN after_read(m, -1)
         ELSE Raise(m, exc)
    ELSE LET m1 == [m EXCEPT !.h.my_sequence_num = @ + 1,
                             !.message_count = @ + 1,
                             !.pc = "read", !.cur_cb = NoFrame]
         IN  IF ret THEN after_read(m1, m1.message_count) ELSE m1

\* The handler of a registered callback variant once the ambassador method
\* has returned or raised (outcome), then the rest of process_callback_request.
callback_return(m, outcome) ==
    LET seq == m.cur_cb.my_sequence_num IN
    IF m.cur_cb.cb = "connectionLost"
    THEN \* connection_lost 73-76: no try/except
         IF outcome = "return"
         THEN after_handler(send_callback_response(m, seq, TRUE), TRUE, "none")
         ELSE after_handler(m, FALSE, outcome)
    ELSE \* discover_object_instance 255-266: except Exception
         after_handler(send_callback_response(m, seq, outcome = "return"),
                       TRUE, "none")

\* handle_callback_request 528-533 for a callback that is dispatched.
handle_callback_request(m, message) ==
    LET m1 == [m EXCEPT !.g.unacked = message.my_sequence_num] IN
    IF message.cb \in RegisteredCallbacks
    THEN [m1 EXCEPT !.pc = "amb", !.cur_cb = message]
    ELSE \* unknown_callback 371: the protobuf has no my_hla_msg_type
         after_handler(m1, FALSE, "AttributeError")

HandlerTypes == {CTRL_NEW_SESSION_STATUS, CTRL_HEARTBEAT_RESPONSE,
                 CTRL_SESSION_TERMINATED, HLA_CALL_RESPONSE,
                 HLA_CALLBACK_REQUEST}

\* One iteration of the loop of read_and_process (393-404) that got frame
\* message from the socket.
read_and_process_frame(m, message) ==
    IF message.my_msg_type \notin HandlerTypes
    THEN Raise(m, "FedProMessageError")
    ELSE
    LET seen == IF message.my_msg_type = CTRL_SESSION_TERMINATED
                THEN 0      \* FedProMessage(message): a fresh header
                ELSE message.my_sequence_num
        m1 == [m EXCEPT !.h.my_last_received_message_number = seen]
    IN  CASE message.my_msg_type = HLA_CALLBACK_REQUEST ->
                LET r == process_callback_request(m1.h, message)
                    m2 == [m1 EXCEPT !.h = r.h]
                IN  CASE r.way = "queued" -> after_handler(m2, FALSE, "none")
                      [] r.way = "dispatch" -> handle_callback_request(m2, message)
                      [] OTHER -> after_handler(m2, FALSE, "AttributeError")
          [] message.my_msg_type = CTRL_SESSION_TERMINATED ->
                \* 398: FedProMessage(message) has the frame object as its
                \* my_msg_type, which is no key of msg_types at 401
                after_handler(m1, FALSE, "KeyError")
          [] OTHER ->
                LET r == CASE message.my_msg_type = HLA_CALL_RESPONSE ->
                                process_call_response(m1.h, message)
                           [] message.my_msg_type = CTRL_NEW_SESSION_STATUS ->
                                process_new_session_status(m1.h, message)
                           [] OTHER ->
                                process_heartbeat_response(m1.h, message)
                    m2 == [m1 EXCEPT
                             !.h = r.h,
                             !.g.match = IF r.matched
                                         THEN [re |-> message.re,
                                               seq |-> message.my_sequence_num]
                                         ELSE @]
                IN  after_handler(m2, r.ret, r.exc)

\* ---------------------------------------------------------------- peer
\* What the peer remembers of a request: its number, frame type and tag.
Request(id, frame) ==
    [id |-> id, my_msg_type |-> frame.my_msg_type,
     my_request_type |-> frame.my_request_type]

\* The server's answers to NewSession: it grants a session and assigns its
\* id, or it refuses, with or without an id in the reply.
SessionAnswers ==
    [sid : SessionIds, status : {SESSION_SUCCESS}]
    \cup [sid : SessionIds \cup {0}, status : {SESSION_INTERNAL_ERROR}]

\* A NewSessionStatus the server sends unasked when it gives up a session.
SessionDropped == [sid : {0}, status : {SESSION_INTERNAL_ERROR}]

\* The exceptions the RTI raises for a service.
ExceptionNames(tag) ==
    IF tag = CREATEFEDERATIONEXECUTIONWITHMODULESRESPONSE_FIELD_NUMBER
    THEN {"FederationExecutionAlreadyExists", "RTIinternalError"}
    ELSE {"RTIinternalError"}

\* The result field of the RTI's response to a handle lookup.
RtiResult(tag) ==
    CASE tag = GETOBJECTCLASSHANDLERESPONSE_FIELD_NUMBER ->
            CHOOSE c \in ClassHandles : TRUE
      [] tag = GETATTRIBUTEHANDLERESPONSE_FIELD_NUMBER ->
            CHOOSE a \in AttrHandles : TRUE
      [] OTHER -> 0

\* The server works through the requests of a session in the order in
\* which they arrived.
Oldest == {q \in peer.open : \A o \in peer.open : q.id <= o.id}

\* The frames the peer can send next: the answer to the oldest request it
\* has not answered yet, or (once the session exists) a CallbackRequest, the
\* NewSessionStatus that ends the session, a frame of a type the engine
\* has no handler for (ResumeStatus), or a SessionTerminated, after which
\* it sends nothing.  Every frame carries the peer's next sequence
\* number.
PeerFrames ==
    LET n == peer.seq + 1 IN
    IF peer.terminated THEN {} ELSE
        {InFrame(CTRL_NEW_SESSION_STATUS, n, a.sid, 0, "", a.status, r.id) :
            a \in SessionAnswers,
            r \in {q \in Oldest : q.my_msg_type = CTRL_NEW_SESSION}}
        \cup
        {InFrame(CTRL_HEARTBEAT_RESPONSE, n, peer.sid, 0, "", SESSION_UNSET, r.id) :
            r \in {q \in Oldest : q.my_msg_type = CTRL_HEARTBEAT}}
        \cup
        {[InFrame(HLA_CALL_RESPONSE, n, peer.sid, r.my_request_type, "",
                  SESSION_UNSET, r.id)
             EXCEPT !.result = RtiResult(r.my_request_type)] :
            r \in {q \in Oldest : q.my_msg_type = HLA_CALL_REQUEST}}
        \cup
        UNION {{ExceptionResponse(n, peer.sid, name, r.id) :
                    name \in ExceptionNames(r.my_request_type)} :
               r \in {q \in Oldest : q.my_msg_type = HLA_CALL_REQUEST}}
        \cup
        {InFrame(HLA_CALLBACK_REQUEST, n, peer.sid, 0, k, SESSION_UNSET, 0) :
            k \in IF peer.sid # 0 THEN CbKinds ELSE {}}
        \cup
        {InFrame(CTRL_NEW_SESSION_STATUS, n, a.sid, 0, "", a.status, 0) :
            a \in IF peer.sid # 0 THEN SessionDropped ELSE {}}
        \cup
        {InFrame(CTRL_SESSION_TERMINATED, n, sid, 0, "", SESSION_UNSET, 0) :
            sid \in IF peer.sid # 0 THEN {peer.sid} ELSE {}}
        \cup
        {InFrame(CTRL_RESUME_STATUS, n, sid, 0, "", SESSION_UNSET, 0) :
            sid \in IF peer.resume /\ peer.sid # 0 THEN {peer.sid} ELSE {}}

\* The requests that reached the peer and that it has not answered: a step
\* of the engine sends at most one request, as its last frame.
PeerOpen(m) ==
    IF m.g.requests # g.requests
    THEN peer.open \cup {Request(m.g.requests, m.wire[Len(m.wire)])}
    ELSE peer.open

PeerSends(m, f) ==
    peer' = [first |-> peer.first,
             resume |-> peer.resume,
             terminated |-> f.my_msg_type = CTRL_SESSION_TERMINATED,
             seq |-> f.my_sequence_num,
             sid |-> IF f.my_msg_type = CTRL_NEW_SESSION_STATUS
                     THEN f.my_session_id ELSE peer.sid,
             open |-> {r \in PeerOpen(m) : r.id # f.re}]

\* A step of the engine during which the peer sends nothing.
Step(m) ==
    /\ Commit(m)
    /\ peer' = [peer EXCEPT !.open = PeerOpen(m)]

\* ------------------------------------------------------------- actions
\* The host issues a bounded number of engine calls, and goes on calling
\* evoke_callback for as long as callbacks are queued.
HostMayCall == g.host_calls < MaxHostCalls

\* RtiAmbassadorFedPro.connect -> initializeSession -> connect_socket.
Connect ==
    /\ pc = "host"
    /\ HostMayCall
    /\ \E socket_ok \in BOOLEAN :
          IF handler.my_socket \/ ~socket_ok
          THEN \* initializeSession returns False
               Step(Raise(Enter(Cur), "FedProSocketError"))
          ELSE Step(send_and_wait(
                        [Enter(Cur) EXCEPT !.h.my_socket = TRUE,
                                           !.h.my_is_connection_ok = TRUE],
                        NewSessionMessage, CTRL_NEW_SESSION_STATUS,
                        "initializeSession"))

\* A facade service, after register_object_instance.
FacadeCall ==
    /\ pc = "host"
    /\ HostMayCall
    /\ \E tag \in FacadeTags :
          Step(send_and_wait(Enter(Cur), CallRequestMessage(tag), tag, "facade"))

\* RtiAmbassadorFedPro.create_fed_ex up to the blocking read.
CreateFedEx ==
    /\ pc = "host"
    /\ HostMayCall
    /\ IF ~rti.my_is_connection_ok
       THEN Step(Raise(Enter(Cur), "RTIinternalError"))
       ELSE IF ~handler.federate_ambassador_handler
       THEN \* line 135 reads an attribute that was never assigned
            Step(Raise(Enter(Cur), "AttributeError"))
       ELSE Step(send_and_wait(
                Enter(Cur),
                CallRequestMessage(
                    CREATEFEDERATIONEXECUTIONWITHMODULESRESPONSE_FIELD_NUMBER),
                CREATEFEDERATIONEXECUTIONWITHMODULESRESPONSE_FIELD_NUMBER,
                "create_fed_ex"))

\* A facade service that tests the result of send_and_wait with "is None":
\* destroy_federation_execution, and in the same way resign, unpublish,
\* unsubscribe, list_federation_executions.
DestroyFederationExecution ==
    /\ pc = "host"
    /\ HostMayCall
    /\ IF ~rti.my_is_connection_ok
       THEN Step(Raise(Enter(Cur), "RTIinternalError"))
       ELSE \E tag \in FacadeTags :
               Step(send_and_wait(Enter(Cur), CallRequestMessage(tag), tag,
                                  "destroy_federation_execution"))

\* A get_object_class_handle that asks the RTI every time.
GetObjectClassHandle_uncached(object_class_name) ==
    /\ pc = "host"
    /\ HostMayCall
    /\ Step(send_and_wait(
            [Enter(Cur) EXCEPT
                !.g.call = [op |-> "get_object_class_handle",
                            name |-> object_class_name, class_handle |-> 0],
                !.call_args.object_class_name = object_class_name],
            CallRequestMessage(GETOBJECTCLASSHANDLERESPONSE_FIELD_NUMBER),
            GETOBJECTCLASSHANDLERESPONSE_FIELD_NUMBER,
            "get_object_class_handle"))

\* RtiAmbassadorFedPro.get_object_class_handle up to the blocking read.
GetObjectClassHandle(object_class_name) ==
    /\ pc = "host"
    /\ HostMayCall
    /\ LET m == [Enter(Cur) EXCEPT
                    !.g.call = [op |-> "get_object_class_handle",
                                name |-> object_class_name,
                                class_handle |-> 0]]
           object_class_handle == rti.my_obj_name_handles[object_class_name]
       IN  IF object_class_handle # None
           THEN Step(ReturnHandle(m, object_class_handle))
           ELSE Step(send_and_wait(
                    [m EXCEPT !.call_args.object_class_name = object_class_name],
                    CallRequestMessage(GETOBJECTCLASSHANDLERESPONSE_FIELD_NUMBER),
                    GETOBJECTCLASSHANDLERESPONSE_FIELD_NUMBER,
                    "get_object_class_handle"))

\* RtiAmbassadorFedPro.get_attribute_handle up to the blocking read.
GetAttributeHandle(class_handle, attr_name) ==
    /\ pc = "host"
    /\ HostMayCall
    /\ LET m == [Enter(Cur) EXCEPT
                    !.g.call = [op |-> "get_attribute_handle",
                                name |-> attr_name,
                                class_handle |-> class_handle]]
           attr_handle_map == my_data.my_attr_name_handles[class_handle]
       IN  IF ~handler.federate_ambassador_handler
           THEN \* 305: the attribute was never assigned
                Step(Raise(m, "AttributeError"))
           ELSE IF attr_handle_map.present /\ attr_handle_map.map[attr_name] # None
           THEN Step(ReturnHandle(m, attr_handle_map.map[attr_name]))
           ELSE Step(send_and_wait(
                    [m EXCEPT !.call_args.class_handle = class_handle,
                              !.call_args.attr_name = attr_name],
                    CallRequestMessage(GETATTRIBUTEHANDLERESPONSE_FIELD_NUMBER),
                    GETATTRIBUTEHANDLERESPONSE_FIELD_NUMBER,
                    "get_attribute_handle"))

\* An update_attribute_values without the test for an empty map.
UpdateAttributeValues_unchecked(attribute_values) ==
    /\ pc = "host"
    /\ HostMayCall
    /\ Step(send_and_wait(
            Enter(Cur),
            CallRequestMessage(UPDATEATTRIBUTEVALUESRESPONSE_FIELD_NUMBER),
            UPDATEATTRIBUTEVALUESRESPONSE_FIELD_NUMBER,
            "update_attribute_values"))

\* RtiAmbassadorFedPro.update_attribute_values up to the blocking read;
\* attribute_values is given by the set of its keys.
UpdateAttributeValues(attribute_values) ==
    /\ pc = "host"
    /\ HostMayCall
    /\ IF attribute_values = {}
       THEN Step(Raise(Enter(Cur), "RTIinternalError: No attribute values"))
       ELSE Step(send_and_wait(
                Enter(Cur),
                CallRequestMessage(UPDATEATTRIBUTEVALUESRESPONSE_FIELD_NUMBER),
                UPDATEATTRIBUTEVALUESRESPONSE_FIELD_NUMBER,
                "update_attribute_values"))

\* RtiAmbassadorFedPro.evoke_callback up to the blocking read.
EvokeCallback ==
    /\ pc = "host"
    /\ HostMayCall \/ handler.my_callback_request_queue # <<>>
    /\ IF ~rti.my_is_connection_ok
       THEN Step(Return(Enter(Cur), "evoked"))
       ELSE IF ~handler.my_enable_callback_requests
       THEN Step(Return(Enter(Cur), "evoked"))
       ELSE LET m == [Enter(Cur) EXCEPT !.h.my_queue_callback_requests = FALSE,
                                        !.reader = "evoke", !.message_count = 0]
            IN  IF is_connected(m.h)
                THEN Step([m EXCEPT !.pc = "read"])
                ELSE Step(after_read(m, -1))

\* read_and_process gets the next frame from the socket and handles it.
ReadFrame ==
    /\ pc = "read"
    /\ peer.seq < peer.first + MaxPeerSeq
    /\ \E f \in PeerFrames :
          LET m == read_and_process_frame(Cur, f) IN
          /\ Commit(m)
          /\ PeerSends(m, f)

\* No frame arrives until max_stop_time: read_and_process returns its count.
ReadDeadline ==
    /\ pc = "read"
    /\ Step(after_read([Cur EXCEPT !.g.timed_out = (reader = "poll")],
                       message_count))

\* The socket read raises OSError: read_and_process returns -1.
ReadError ==
    /\ pc = "read"
    /\ g.read_errors < MaxReadErrors
    /\ Step(after_read([Cur EXCEPT !.g.read_errors = @ + 1], -1))

\* The FederateAmbassador method the engine invoked calls a facade service:
\* send_and_wait has no test for a callback being dispatched.
CallFromCallback ==
    /\ pc = "amb"
    /\ HostMayCall
    /\ Len(stack) < MaxNesting
    /\ \E tag \in FacadeTags :
          Step(send_and_wait(
                   [Cur EXCEPT !.stack = Append(@, Suspended(Cur)),
                               !.g.host_calls = @ + 1],
                   CallRequestMessage(tag), tag, "facade"))

\* The FederateAmbassador method the engine invoked returns or raises.
AmbassadorReturns ==
    /\ pc = "amb"
    /\ \E outcome \in AmbOutcomes : Step(callback_return(Cur, outcome))

Next ==
    \/ Connect
    \/ FacadeCall
    \/ CreateFedEx
    \/ DestroyFederationExecution
    \/ \E object_class_name \in ClassNames :
            GetObjectClassHandle(object_class_name)
    \/ \E class_handle \in ClassHandles, attr_name \in AttrNames :
            GetAttributeHandle(class_handle, attr_name)
    \/ \E attribute_values \in SUBSET AttrHandles :
            UpdateAttributeValues(attribute_values)
    \/ EvokeCallback
    \/ ReadFrame
    \/ ReadDeadline
    \/ ReadError
    \/ CallFromCallback
    \/ AmbassadorReturns

Spec == Init /\ [][Next]_vars

\* The host keeps calling evoke_callback, a blocking read ends at its
\* deadline at the latest, and an ambassador method comes back.
FairSpec ==
    /\ Spec
    /\ WF_vars(EvokeCallback)
    /\ WF_vars(ReadDeadline)
    /\ WF_vars(AmbassadorReturns)

\* ------------------------------------------------- a session in progress
\* Numbers of frames the peer has sent when the observation starts: the
\* next expected sequence number is inside CPython's small-int cache
\* (up to 256) or just outside it.
SessionLengths == {254, 255, 256}

\* The state connect and a series of evoke_callback calls lead to: the
\* handshake took frames 1 to 3, every later frame up to k was a
\* discoverObjectInstance callback that was delivered and acknowledged.
\* Of the bounds, the handshake's call and frames are used up.
SessionHandler(k, sid) ==
    [InitHandler EXCEPT
        !.my_socket = TRUE,
        !.my_is_connection_ok = TRUE,
        !.my_session_id = sid,
        !.my_session_status = SESSION_SUCCESS,
        !.federate_ambassador_handler = TRUE,
        !.my_poll_result = 1,
        !.my_last_received_message_number = k,
        !.my_sequence_num = k + 1,
        !.my_fedPro_response =
            Stored(InFrame(HLA_CALLBACK_REQUEST, k, sid, 0,
                           "discoverObjectInstance", SESSION_UNSET, 0))]

LongSessionInit ==
    \E k \in SessionLengths, sid \in SessionIds :
        /\ handler = SessionHandler(k, sid)
        /\ rti = [InitRti EXCEPT !.rti_connection = TRUE,
                                 !.my_is_connection_ok = TRUE]
        /\ my_data = InitData
        /\ pc = "host"
        /\ reader = "none"
        /\ caller = "none"
        /\ call_args = NoArgs
        /\ message_count = 0
        /\ cur_cb = NoFrame
        /\ stack = <<>>
        /\ wire = send_message(SessionHandler(k, sid),
                               CallbackResponseMessage(k, TRUE), TRUE).out
        /\ peer = [seq |-> k, sid |-> sid, open |-> {}, first |-> k - 3,
                   terminated |-> FALSE,
                   resume |-> FALSE]
        /\ sock = NoSock
        /\ g = [InitGhost EXCEPT
                    !.host_result = "evoked",
                    !.host_calls = 1,
                    !.requests = 3,
                    !.req_seq = [prev |-> [seq |-> 1, sid |-> sid],
                                 last |-> [seq |-> 2, sid |-> sid]]]

LongSessionSpec == LongSessionInit /\ [][Next]_vars

\* ------------------------------------------------ a federate at work
\* The engine when connect() and then get_object_class_handle("Ball") have
\* returned: NewSessionStatus, Heartbeat response, connect response and
\* getObjectClassHandleResponse were frames 1 to 4.
ResolvedHandler(sid) ==
    [InitHandler EXCEPT
        !.my_socket = TRUE,
        !.my_is_connection_ok = TRUE,
        !.my_session_id = sid,
        !.my_session_status = SESSION_SUCCESS,
        !.federate_ambassador_handler = TRUE,
        !.my_poll_result = 1,
        !.my_last_received_message_number = 4,
        !.my_sequence_num = 4,
        !.my_fedPro_response =
            Stored([InFrame(HLA_CALL_RESPONSE, 4, sid,
                            GETOBJECTCLASSHANDLERESPONSE_FIELD_NUMBER,
                            "", SESSION_UNSET, 4)
                      EXCEPT !.result =
                        RtiResult(GETOBJECTCLASSHANDLERESPONSE_FIELD_NUMBER)])]

\* The caches after that lookup; the host's calls and the peer's frames
\* are counted so that two more calls and two more frames are observed.
ResolvedState(resume) ==
    \E sid \in SessionIds :
        LET c == RtiResult(GETOBJECTCLASSHANDLERESPONSE_FIELD_NUMBER) IN
        /\ handler = ResolvedHandler(sid)
        /\ rti = [InitRti EXCEPT !.rti_connection = TRUE,
                                 !.my_is_connection_ok = TRUE,
                                 !.my_obj_name_handles["Ball"] = c,
                                 !.my_obj_handle_names[c] = "Ball"]
        /\ my_data = [InitData EXCEPT
                        !.my_attr_handle_names[c] = NoAttrNames(TRUE),
                        !.my_attr_name_handles[c] = NoAttrMap(TRUE)]
        /\ pc = "host"
        /\ reader = "none"
        /\ caller = "none"
        /\ call_args = NoArgs
        /\ message_count = 0
        /\ cur_cb = NoFrame
        /\ stack = <<>>
        /\ wire = <<>>
        /\ peer = [seq |-> 4, sid |-> sid, open |-> {}, first |-> 1,
                   terminated |-> FALSE,
                   resume |-> resume]
        /\ sock = NoSock
        /\ g = [InitGhost EXCEPT
                    !.host_result = "ok",
                    !.host_calls = 1,
                    !.requests = 4,
                    !.req_seq = [prev |-> [seq |-> 2, sid |-> sid],
                                 last |-> [seq |-> 3, sid |-> sid]],
                    !.completed = [req |-> 4, re |-> 4, seq |-> 4,
                                   req_seq |-> 3],
                    !.call = [op |-> "get_object_class_handle",
                              name |-> "Ball", class_handle |-> 0],
                    !.value = c]

ResolvedInit == ResolvedState(FALSE)

ResolvedSpec == ResolvedInit /\ [][Next]_vars

\* ------------------------------------------- a connect left unanswered
\* The engine when connect() has raised RTIinternalError after the
\* NewSessionStatus was received (frame 1) and the reads of both the
\* Heartbeat's wait and the connect request's wait failed with OSError:
\* requests 2 and 3 are with the peer, unanswered.
UnansweredHandler(sid) ==
    [InitHandler EXCEPT
        !.my_socket = TRUE,
        !.my_is_connection_ok = TRUE,
        !.my_session_id = sid,
        !.my_session_status = SESSION_SUCCESS,
        !.federate_ambassador_handler = TRUE,
        !.my_poll_result = 0,
        !.my_last_received_message_number = 1,
        !.my_sequence_num = 1,
        !.my_fedPro_response =
            Stored(InFrame(CTRL_NEW_SESSION_STATUS, 1, sid, 0, "",
                           SESSION_SUCCESS, 0))]

UnansweredState(resume) ==
    \E sid \in SessionIds :
        /\ handler = UnansweredHandler(sid)
        /\ rti = InitRti
        /\ my_data = InitData
        /\ pc = "host"
        /\ reader = "none"
        /\ caller = "none"
        /\ call_args = NoArgs
        /\ message_count = 0
        /\ cur_cb = NoFrame
        /\ stack = <<>>
        /\ wire = <<>>
        /\ peer = [seq |-> 1, sid |-> sid,
                   open |-> {[my_msg_type |-> CTRL_HEARTBEAT,
                              my_request_type |-> 0, id |-> 2],
                             [my_msg_type |-> HLA_CALL_REQUEST,
                              my_request_type |->
                                CONNECTWITHCONFIGURATIONRESPONSE_FIELD_NUMBER,
                              id |-> 3]},
                   first |-> 0, terminated |-> FALSE,
                   resume |-> resume]
        /\ sock = NoSock
        /\ g = [InitGhost EXCEPT
                    !.host_result = "RTIinternalError",
                    !.host_calls = 1,
                    !.requests = 3,
                    !.req_seq = [prev |-> [seq |-> 1, sid |-> sid],
                                 last |-> [seq |-> 1, sid |-> sid]],
                    !.completed = [req |-> 1, re |-> 1, seq |-> 1,
                                   req_seq |-> 0]]

UnansweredInit == UnansweredState(FALSE)

\* The engine after connect(), whichever way connect() ended: answered and
\* followed by a first lookup, or left unanswered.
AfterConnectInit == ResolvedInit \/ UnansweredInit

AfterConnectSpec == AfterConnectInit /\ [][Next]_vars

\* ------------------------------------- a server that sends other frames
\* The same two states of the engine, connected to a server that also
\* sends frames of a type the engine has no handler for (ResumeStatus).
ResumingInit == ResolvedState(TRUE) \/ UnansweredState(TRUE)

ResumingSpec == ResumingInit /\ [][Next]_vars

\* ---------------------------------------------------------- properties
Polling == pc = "read" /\ reader = "poll"

\* The inbound frame consumed by the step is a CallbackRequest.
ConsumesCallbackRequest ==
    /\ peer'.seq # peer.seq
    /\ handler'.my_fedPro_response.my_msg_type = HLA_CALLBACK_REQUEST
    /\ handler'.my_fedPro_response.my_sequence_num = peer'.seq

Queued(n) ==
    \E i \in 1..Len(handler.my_callback_request_queue) :
        handler.my_callback_request_queue[i].my_sequence_num = n

\* The CallbackResponse that would have been sent for the same callback
\* after a normal return.
SuccessResponse(f) ==
    [CallbackResponseMessage(f.my_sequence_num, TRUE)
        EXCEPT !.my_session_id = f.my_session_id,
               !.my_last_received_msg = f.my_last_received_msg]

\* C1: a synchronous call stops waiting when its timeout elapses without a
\* matching response: once the read deadline of a poll has passed, the call
\* is no longer blocked in poll_for_call_response.
C1_CallEndsAtTimeout == Polling => ~g.timed_out

\* The host's call (connect or a facade service) returned normally.
ReturnedNormally == pc = "host" /\ g.host_result = "ok" /\ g.completed.req # 0

\* C2: a call that returns normally was completed by the response to its
\* own request, never by the response to an earlier request.
C2_NoStaleResponse == ReturnedNormally => g.completed.re = g.completed.req

\* C3: if the host calls evoke_callback again and again, no queued
\* CallbackRequest stays in the callback queue forever.
C3_QueuedIsDelivered ==
    ([]<>(reader = "evoke")) =>
        \A n \in 1..MaxPeerSeq : Queued(n) ~> ~Queued(n)

\* C4: within one session every request frame carries a sequence number
\* strictly greater than that of the request frame sent before it.
C4_OutboundSeqIncreases ==
    (g.req_seq.prev.sid # 0 /\ g.req_seq.prev.sid = g.req_seq.last.sid)
        => g.req_seq.prev.seq < g.req_seq.last.seq

\* C5: the response that completed a call carries the sequence number that
\* was put into the request frame of the call.
C5_ResponseSeqIsRequestSeq ==
    ReturnedNormally => g.completed.seq = g.completed.req_seq

\* C6: my_queue_callback_requests is true whenever evoke_callback is not
\* executing (neither reading nor suspended below an ambassador method).
C6_QueueModeRestored ==
    (reader # "evoke" /\ stack = <<>>) => handler.my_queue_callback_requests

\* C7: while an ambassador callback method runs, my_queue_callback_requests
\* is false: nothing is delivered in queue mode.
C7_NoDeliveryWhileQueueing == pc = "amb" => ~handler.my_queue_callback_requests

C7_Witness ==
    /\ pc = "amb"
    /\ cur_cb.my_msg_type = HLA_CALLBACK_REQUEST
    /\ ~handler.my_queue_callback_requests

\* C8: a CallbackRequest consumed while a synchronous call waits is appended
\* to the queue, no ambassador method runs, no frame is sent, and the call
\* keeps waiting for the same response type.
C8_CallbackDuringCallIsQueued ==
    [][(Polling /\ ConsumesCallbackRequest) =>
          /\ Len(handler'.my_callback_request_queue) =
                 Len(handler.my_callback_request_queue) + 1
          /\ Queued(peer.seq)'
          /\ wire' = <<>>
          /\ Polling'
          /\ handler'.my_expected_response_type =
                 handler.my_expected_response_type]_vars

\* C9: when the dispatch of a callback is over, a CallbackResponse with the
\* callback's sequence number has been sent.
C9_DeliveredIsAcknowledged == (pc # "amb" /\ stack = <<>>) => g.unacked = 0

\* C10: a CallbackResponse sent after the ambassador method raised differs
\* on the wire from the one sent after a normal return.
C10_FailureIsOnTheWire ==
    \A i \in 1..Len(wire) :
        (wire[i].my_msg_type = HLA_CALLBACK_RESPONSE /\ ~wire[i].my_succeeded)
            => to_bytes(wire[i]) # to_bytes(SuccessResponse(wire[i]))

\* C11: callbacks reach the ambassador in arrival order: while an ambassador
\* method runs for a CallbackRequest, no CallbackRequest that arrived before
\* it (a smaller peer sequence number) is still waiting in the queue.
C11_DeliveredInArrivalOrder ==
    pc = "amb" =>
        \A i \in 1..Len(handler.my_callback_request_queue) :
            handler.my_callback_request_queue[i].my_sequence_num
                > cur_cb.my_sequence_num

\* C12: a facade call made from inside an ambassador method is rejected
\* without sending a CallRequest, and no second ambassador method starts
\* while one is still in progress.
C12_NoCallFromWithinCallback ==
    [][/\ pc = "amb" =>
            \A i \in 1..Len(wire') : wire'[i].my_msg_type # HLA_CALL_REQUEST
       /\ pc' = "amb" => stack' = <<>>]_vars

\* No send_and_wait is on the call stack: the host is between two engine
\* calls, or evoke_callback runs and no ambassador method has called back
\* into the engine.
NoCallExecuting == reader # "poll" /\ stack = <<>>

ExpectationEmpty ==
    /\ handler.my_expected_response_type = UNKNOWN
    /\ handler.my_expected_response_request_number = 0

\* C13: whenever no synchronous call is executing, the expectation slot is
\* empty: expected response type UNKNOWN and expected sequence number 0.
C13_NoExpectationOutsideCall == NoCallExecuting => ExpectationEmpty

\* A CallRequest is pending, not nested in an ambassador method, with
\* callbacks queued while it waits.
PlainCallPending ==
    /\ Polling
    /\ stack = <<>>
    /\ handler.my_queue_callback_requests
    /\ caller \in {"facade", "connect", "create_fed_ex",
                  "destroy_federation_execution"}

\* The frame the pending call consumed last is a CallResponse with tag
\* EXCEPTION_DATA and the expected sequence number.
ExceptionResponseArrived ==
    /\ PlainCallPending
    /\ handler.my_fedPro_response.my_msg_type = HLA_CALL_RESPONSE
    /\ handler.my_fedPro_response.my_hla_msg_type = EXCEPTIONDATA_FIELD_NUMBER
    /\ handler.my_fedPro_response.my_sequence_num =
           handler.my_last_received_message_number
    /\ handler.my_fedPro_response.my_sequence_num =
           handler.my_expected_response_request_number

\* The pending call has been answered by an RTI exception.
ExceptionPending ==
    /\ PlainCallPending
    /\ handler.my_expected_response_type = EXCEPTIONDATA_FIELD_NUMBER

RtiExceptionOutcome == handler.my_poll_result = -1 /\ ExpectationEmpty

\* C14: a CallResponse with tag EXCEPTION_DATA and the expected sequence
\* number, whatever its value, makes the pending call an excepted one, and
\* an excepted call ends with poll result -1 and the expectation cleared.
C14_ExceptionResponseEndsCall ==
    [][/\ ExceptionResponseArrived' => ExceptionPending'
       /\ (ExceptionPending /\ ~Polling') => RtiExceptionOutcome']_vars

\* C15: a facade call reports success only if its poll ended with the
\* expected response (poll result 1); a call answered with EXCEPTION_DATA
\* or not answered reports failure.
C15_SuccessOnlyAfterResponse ==
    (pc = "host" /\ g.host_result = "ok") => handler.my_poll_result = 1

\* The step ends create_fed_ex, whose poll was ended by a CallResponse with
\* exceptionData named FederationExecutionAlreadyExists.
CreateAnsweredAlreadyExists ==
    /\ caller = "create_fed_ex"
    /\ pc' = "host"
    /\ handler'.my_poll_result = -1
    /\ handler'.my_fedPro_response.my_msg_type = HLA_CALL_RESPONSE
    /\ handler'.my_fedPro_response.exceptionName =
           "FederationExecutionAlreadyExists"

\* C16: create_fed_ex answered with the exception
\* FederationExecutionAlreadyExists raises that error to its caller, and the
\* connection stays usable.
C16_AlreadyExistsIsRaised ==
    [][CreateAnsweredAlreadyExists =>
          /\ g'.host_result = "FederationExecutionAlreadyExists"
          /\ is_connected(handler')
          /\ rti'.my_is_connection_ok]_vars

\* The server refused the session.
SessionRefused ==
    handler.my_session_status \notin {SESSION_UNSET, SESSION_SUCCESS}

\* C17: when the NewSessionStatus reply carries a status other than SUCCESS,
\* its session id is not adopted, connect does not succeed, and no Heartbeat
\* or CallRequest frame is sent.
C17_RefusedSessionIsNotUsed ==
    SessionRefused =>
        /\ handler.my_session_id = 0
        /\ ~rti.my_is_connection_ok
        /\ \A i \in 1..Len(wire) :
              wire[i].my_msg_type \notin {CTRL_HEARTBEAT, HLA_CALL_REQUEST}

\* The step ends connect's Heartbeat poll and sends the
\* connectWithConfiguration CallRequest.
SendsConnectRequest ==
    /\ caller = "connect_heartbeat"
    /\ caller' = "connect"
    /\ \E i \in 1..Len(wire') : wire'[i].my_msg_type = HLA_CALL_REQUEST

\* C18: connect sends the connectWithConfiguration CallRequest only after
\* the HeartbeatResponse that answers its Heartbeat has been received.
C18_ConnectRequestAfterHeartbeat ==
    [][SendsConnectRequest =>
          (g.cur_req # 0 /\ g.match.re = g.cur_req)]_vars

\* C19: every outbound frame other than NewSession carries the non-zero
\* session id the server assigned in its NewSessionStatus.
C19_OutboundCarriesSessionId ==
    \A i \in 1..Len(wire) :
        wire[i].my_msg_type # CTRL_NEW_SESSION =>
            (wire[i].my_session_id # 0 /\ wire[i].my_session_id = peer.sid)

\* C20: once initializeSession has adopted the session id of the handshake's
\* NewSessionStatus, no step changes my_session_id.
C20_SessionIdImmutable ==
    [][handler.federate_ambassador_handler =>
          handler'.my_session_id = handler.my_session_id]_vars

\* ------------------------------------------------------------ handshake
\* The step in which the handshake reads the server's NewSessionStatus
\* with status SUCCESS.
HandshakeSucceeds ==
    /\ caller = "initializeSession"
    /\ peer'.seq # peer.seq
    /\ handler'.my_fedPro_response.my_msg_type = CTRL_NEW_SESSION_STATUS
    /\ handler'.my_fedPro_response.my_status = SESSION_SUCCESS

\* C21: the NewSession frame is 28 bytes with sequence number 0, session
\* id 0, message type 1 and protocol version 1; once the NewSessionStatus
\* with status SUCCESS and session id S has been processed, the engine
\* holds session id S and the next frame it sends carries session id S and
\* sequence number 1.
C21_HandshakeScenario ==
    [][/\ \A i \in DOMAIN wire' :
            wire'[i].my_msg_type = CTRL_NEW_SESSION =>
                /\ to_bytes(wire'[i]) = <<28, 0, 0, 1, 1>>
                /\ calcsize(NewSessionFormat) = wire'[i].my_msg_size
       /\ HandshakeSucceeds =>
            /\ handler'.my_session_id = handler'.my_fedPro_response.my_session_id
            /\ handler'.my_session_id = peer'.sid
            /\ wire' # <<>>
            /\ wire'[1].my_session_id = peer'.sid
            /\ wire'[1].my_sequence_num = 1]_vars

C21_Witness ==
    /\ caller = "connect_heartbeat"
    /\ handler.my_session_status = SESSION_SUCCESS
    /\ handler.my_session_id \in SessionIds
    /\ wire # <<>>
    /\ wire[1].my_msg_type = CTRL_HEARTBEAT
    /\ wire[1].my_session_id = handler.my_session_id
    /\ wire[1].my_sequence_num = 1

\* --------------------------------------------------- session terminated
\* The step reads the peer's SessionTerminated frame.
ReadsSessionTerminated == peer'.terminated /\ ~peer.terminated

\* C22: a SessionTerminated frame read while a synchronous call is pending
\* ends the call with an error: the call does not go on waiting, the
\* last-received sequence number is that of the frame, and no expectation
\* is left pending.
C22_SessionTerminatedEndsCall ==
    [][(Polling /\ stack = <<>> /\ ReadsSessionTerminated) =>
            /\ pc' = "host"
            /\ g'.host_result \notin {"ok", "evoked", "running", "none"}
            /\ handler'.my_last_received_message_number = peer'.seq
            /\ ExpectationEmpty']_vars

\* ---------------------------------------------------- heartbeat timeout
\* The Heartbeat of connect has been sent and the peer has sent k frames.
HeartbeatAwaited(k) ==
    /\ pc = "read"
    /\ caller = "connect_heartbeat"
    /\ peer.seq = k

\* The engine regards the session as lost: the transport is closed or the
\* connection flag is down, so that every call fails as not connected.
SessionLost == ~is_connected(handler)

\* C23: once a Heartbeat has been sent, either a further inbound frame
\* arrives or the engine eventually declares the session lost and closes
\* the transport, after which calls fail as not connected.
C23_HeartbeatTimeout ==
    \A k \in 0..MaxPeerSeq :
        HeartbeatAwaited(k) ~> (SessionLost \/ peer.seq # k)

\* ------------------------------------------------------- late responses
\* The step reads a CallResponse during a host-level evoke_callback while
\* no call is pending.
LateCallResponseRead ==
    /\ pc = "read"
    /\ reader = "evoke"
    /\ stack = <<>>
    /\ ExpectationEmpty
    /\ peer'.seq # peer.seq
    /\ handler'.my_fedPro_response.my_msg_type = HLA_CALL_RESPONSE
    /\ handler'.my_fedPro_response.my_sequence_num = peer'.seq

\* C25: a CallResponse that arrives when no call is pending is discarded:
\* evoke_callback does not end with an error because of it, and the engine
\* is left as evoke_callback leaves it (connected, queueing callbacks).
C25_LateResponseIsDiscarded ==
    [][LateCallResponseRead =>
            /\ pc' = "host" =>
                    /\ g'.host_result = "evoked"
                    /\ handler'.my_queue_callback_requests
            /\ is_connected(handler')]_vars

\* -------------------------------------------------- unrelated responses
\* CallResponse f is neither the response the expectation (type, number)
\* waits for nor the exception answer to that request.
Unrelated(f, type, number) ==
    /\ f.my_msg_type = HLA_CALL_RESPONSE
    /\ \/ f.my_hla_msg_type # type
       \/ f.my_sequence_num # number
    /\ ~ /\ f.my_hla_msg_type = EXCEPTIONDATA_FIELD_NUMBER
         /\ f.my_sequence_num = number

\* The step reads, while a call is pending, a CallResponse that does not
\* match the call's expectation.
UnrelatedCallResponseRead ==
    /\ Polling
    /\ ~ExpectationEmpty
    /\ peer'.seq # peer.seq
    /\ handler'.my_fedPro_response.my_sequence_num = peer'.seq
    /\ Unrelated(handler'.my_fedPro_response,
                 handler.my_expected_response_type,
                 handler.my_expected_response_request_number)

\* C24: a CallResponse that does not match the pending expectation is
\* discarded: expectation type and number are unchanged, no handle cache
\* changes, the call is not completed and goes on waiting.
C24_UnrelatedResponseIsDiscarded ==
    [][UnrelatedCallResponseRead =>
            /\ handler'.my_expected_response_type =
                    handler.my_expected_response_type
            /\ handler'.my_expected_response_request_number =
                    handler.my_expected_response_request_number
            /\ rti' = rti
            /\ my_data' = my_data
            /\ g'.completed = g.completed
            /\ Polling'
            /\ caller' = caller]_vars

C24_Witness ==
    /\ Polling
    /\ ~ExpectationEmpty
    /\ message_count > 0
    /\ handler.my_last_received_message_number = peer.seq
    /\ handler.my_fedPro_response.my_sequence_num = peer.seq
    /\ Unrelated(handler.my_fedPro_response,
                 handler.my_expected_response_type,
                 handler.my_expected_response_request_number)

\* --------------------------------------------------------- handle caches
\* The host's last call was the handle lookup (op, name, class_handle) and
\* it returned a handle.
Resolved(op, name, class_handle) ==
    /\ pc = "host"
    /\ g.host_result = "ok"
    /\ g.call = [op |-> op, name |-> name, class_handle |-> class_handle]

\* The step is a whole lookup that returns the handle the previous call
\* returned and writes no frame.
AnsweredFromCache ==
    /\ wire' = <<>>
    /\ pc' = "host"
    /\ g'.host_result = "ok"
    /\ g'.value = g.value
    /\ g'.requests = g.requests

\* C26: of two successive lookups of the same name that both return a
\* handle, the second returns the handle of the first and sends no frame;
\* likewise for attribute handles.
C26_SecondLookupIsCached ==
    [][/\ \A n \in ClassNames :
            (Resolved("get_object_class_handle", n, 0)
                /\ GetObjectClassHandle(n)) => AnsweredFromCache
       /\ \A c \in ClassHandles, a \in AttrNames :
            (Resolved("get_attribute_handle", a, c)
                /\ GetAttributeHandle(c, a)) => AnsweredFromCache]_vars

C26_Witness ==
    /\ \E n \in ClassNames : Resolved("get_object_class_handle", n, 0)
    /\ g.value \in ClassHandles
    /\ g.completed = NoCompleted
    /\ wire = <<>>

\* name_of(handle_of(N)) for a cached object class name N.
NameOfHandleOf(n) == rti.my_obj_handle_names[rti.my_obj_name_handles[n]]

\* C27: the name-to-handle and handle-to-name caches of object classes are
\* mutual inverses: every cached name N with handle H has name_of(H) = N,
\* and every cached handle H with name N has handle_of(N) = H.
C27_CachesAreInverse ==
    /\ \A n \in ClassNames :
            rti.my_obj_name_handles[n] # None => NameOfHandleOf(n) = n
    /\ \A c \in ClassHandleValues :
            rti.my_obj_handle_names[c] # "" =>
                rti.my_obj_name_handles[rti.my_obj_handle_names[c]] = c

\* C28: an entry that a successful resolution added to a cache stays there
\* with the same value: object class names, and attribute names of a class.
C28_CacheEntriesAreKept ==
    [][/\ \A n \in ClassNames :
            rti.my_obj_name_handles[n] # None =>
                rti'.my_obj_name_handles[n] = rti.my_obj_name_handles[n]
       /\ \A c \in ClassHandleValues, a \in AttrNames :
            (/\ my_data.my_attr_name_handles[c].present
             /\ my_data.my_attr_name_handles[c].map[a] # None) =>
                /\ my_data'.my_attr_name_handles[c].present
                /\ my_data'.my_attr_name_handles[c].map[a] =
                        my_data.my_attr_name_handles[c].map[a]]_vars

\* ------------------------------------------------------ local failures
\* The step belongs to the host's call: nothing of the engine changed and
\* no frame was written.
NothingSent ==
    /\ wire' = <<>>
    /\ handler' = handler
    /\ rti' = rti
    /\ my_data' = my_data
    /\ g'.requests = g.requests

\* C29: update_attribute_values with an empty attribute map fails at once
\* with an error; it writes no frame and leaves sequence numbers,
\* expectation and caches as they were.
C29_EmptyUpdateFailsLocally ==
    [][UpdateAttributeValues({}) =>
            /\ NothingSent
            /\ pc' = "host"
            /\ g'.host_result = "RTIinternalError: No attribute values"]_vars

C29_Witness ==
    /\ pc = "host"
    /\ g.host_result = "RTIinternalError: No attribute values"
    /\ is_connected(handler)
    /\ rti.my_is_connection_ok
    /\ wire = <<>>

\* ------------------------------------------------------ not connected
\* The host calls a facade service that needs the RTI.
CallNeedingRti ==
    \/ FacadeCall
    \/ CreateFedEx
    \/ DestroyFederationExecution
    \/ \E object_class_name \in ClassNames :
            /\ rti.my_obj_name_handles[object_class_name] = None
            /\ GetObjectClassHandle(object_class_name)
    \/ \E class_handle \in ClassHandles, attr_name \in AttrNames :
            GetAttributeHandle(class_handle, attr_name)
    \/ \E attribute_values \in SUBSET AttrHandles :
            UpdateAttributeValues(attribute_values)

FacadeErrors ==
    {"FedProMessageError", "RTIinternalError", "AttributeError",
     "RTIinternalError: No attribute values"}

\* C30: while the engine is not connected, a facade call that needs the
\* RTI comes back to the host at once with an error and writes no frame,
\* and evoke_callback comes back without reading from the transport.
C30_NotConnectedFailsFast ==
    [][~is_connected(handler) =>
            /\ CallNeedingRti =>
                    /\ NothingSent
                    /\ pc' = "host"
                    /\ g'.host_result \in FacadeErrors
            /\ EvokeCallback =>
                    /\ NothingSent
                    /\ pc' = "host"
                    /\ peer' = peer]_vars

C30_Witness ==
    /\ pc = "host"
    /\ ~is_connected(handler)
    /\ g.host_result = "FedProMessageError"
    /\ g.host_calls >= 2
    /\ wire = <<>>

\* ---------------------------------------------- frames without handler
\* The step reads a frame whose type has no entry in msg_types.
ReadsUnhandledFrame ==
    /\ pc = "read"
    /\ \E f \in PeerFrames :
          /\ f.my_msg_type \notin HandlerTypes
          /\ LET m == read_and_process_frame(Cur, f) IN
             /\ Commit(m)
             /\ PeerSends(m, f)

\* C31: a frame of a type the engine has no handler for ends the
\* connection: after the step that reads it the engine is not connected.
C31_UnhandledTypeTearsDown ==
    [][ReadsUnhandledFrame => ~is_connected(handler')]_vars

\* ------------------------------------------------------------ MsgSocket
\* Bytes are numbers 0..255 and a byte string is a sequence of them.
\* struct.pack(">I", n) and struct.unpack(">I", b)[0]; the numbers on the
\* wire here stay below 2^31.
U32(n) ==
    <<(n \div 16777216) % 256, (n \div 65536) % 256, (n \div 256) % 256,
      n % 256>>

unpack_I(b) == ((b[1] * 256 + b[2]) * 256 + b[3]) * 256 + b[4]

\* The Q field of the header for a session id that fits its low word.
U64(n) == U32(0) \o U32(n)

unpack_Q(b) == unpack_I(SubSeq(b, 5, 8))

MsgTypeValues ==
    {UNKNOWN, CTRL_NEW_SESSION, CTRL_NEW_SESSION_STATUS, CTRL_HEARTBEAT,
     CTRL_HEARTBEAT_RESPONSE, CTRL_TERMINATE_SESSION,
     CTRL_SESSION_TERMINATED, CTRL_RESUME_REQUEST, CTRL_RESUME_STATUS,
     HLA_CALL_REQUEST, HLA_CALL_RESPONSE, HLA_CALLBACK_REQUEST,
     HLA_CALLBACK_RESPONSE, INVALID}

RECURSIVE join(_)
join(segments) ==
    IF segments = <<>> THEN <<>>
    ELSE Head(segments) \o join(Tail(segments))

\* sum(len(item) for item in self.my_recv_buffer)
buffered(buffer) == Len(join(buffer))

\* The frame as the server writes it: the layout from_bytes reads.
WireFrame(size, seq, sid, last, type, payload) ==
    U32(size) \o U32(seq) \o U64(sid) \o U32(last) \o U32(type) \o payload

Message(type, size, seq, sid, last, payload) ==
    [my_msg_type |-> type, my_msg_size |-> size, my_sequence_num |-> seq,
     my_session_id |-> sid, my_last_received_msg |-> last,
     my_payload |-> payload]

\* FedProMessage.from_bytes on a list of received segments: the message, or
\* the exception it raises.
from_bytes(buffer) ==
    IF Len(buffer[1]) # 4
    THEN [exc |-> "struct.error", msg |-> NoMessage]
    ELSE IF Len(buffer) < 2
    THEN [exc |-> "IndexError", msg |-> NoMessage]
    ELSE IF Len(buffer[2]) < 20
    THEN [exc |-> "struct.error", msg |-> NoMessage]
    ELSE LET size == unpack_I(buffer[1])
             byte_ins == SubSeq(buffer[2], 1, 20)
             type == unpack_I(SubSeq(byte_ins, 17, 20))
         IN  IF type \notin MsgTypeValues
             THEN [exc |-> "ValueError", msg |-> NoMessage]
             ELSE [exc |-> "none",
                   msg |-> Message(
                        type, size,
                        unpack_I(SubSeq(byte_ins, 1, 4)),
                        unpack_Q(SubSeq(byte_ins, 5, 12)),
                        unpack_I(SubSeq(byte_ins, 13, 16)),
                        IF size > 24
                        THEN SubSeq(buffer[2], 21, Len(buffer[2]))
                             \o join(SubSeq(buffer, 3, Len(buffer)))
                        ELSE <<>>)]

\* socket.recv(size) when got bytes come back (0: socket.timeout), then the
\* append of fillBuffer.
fillBuffer(s, got) ==
    IF got = 0 THEN s
    ELSE [s EXCEPT !.my_recv_buffer = Append(@, SubSeq(s.stream, 1, got)),
                   !.stream = SubSeq(@, got + 1, Len(@))]

\* How many bytes a recv(size) returns: all that was asked for, a shorter
\* piece of it, or none before the timeout; never more than is under way.
PartialReads == {2, 21}

RecvChoices == {0, 1000} \cup PartialReads

Min2(a, b) == IF a < b THEN a ELSE b

Got(s, size, choice) == Min2(choice, Min2(size, Len(s.stream)))

Returns(s, msg) ==
    [s EXCEPT !.ret = msg, !.exc = "none",
              !.delivered = IF msg.my_msg_type = INVALID THEN @
                            ELSE Append(@, msg)]

Raises(s, exc) == [s EXCEPT !.ret = NoMessage, !.exc = exc]

\* get_message 213-223 and 230.
handle_size(s, msg_length, rcv_msg) ==
    IF msg_length = buffered(s.my_recv_buffer)
    THEN Returns([s EXCEPT !.my_recv_buffer = <<>>], rcv_msg)
    ELSE IF msg_length < buffered(s.my_recv_buffer)
    THEN Raises(s, "FedProMessageError")
    ELSE Returns(s, Message(INVALID, 0, 0, 0, 0, <<>>))

\* MsgSocket.get_message, given what its one or two recv calls return.
get_message(s, first, rest) ==
    LET rcv_msg == Message(INVALID * (0 - 1), 0, 0, 0, 0, <<>>)
        s1 == fillBuffer(s, Got(s, 4, first))
    IN  IF Got(s, 4, first) = 0
        THEN Returns(s, Message(INVALID, 0, 0, 0, 0, <<>>))
        ELSE IF Len(s1.my_recv_buffer) < 3
        THEN IF Len(s1.my_recv_buffer[1]) # 4
             THEN Raises(s1, "struct.error")
             ELSE LET msg_length == unpack_I(s1.my_recv_buffer[1]) IN
                  IF msg_length >= 24
                  THEN LET s2 == fillBuffer(s1, Got(s1, msg_length - 4, rest))
                           d == from_bytes(s2.my_recv_buffer)
                       IN  IF d.exc # "none" THEN Raises(s2, d.exc)
                           ELSE handle_size(s2, msg_length, d.msg)
                  ELSE handle_size(s1, msg_length, rcv_msg)
        ELSE LET d == from_bytes(s1.my_recv_buffer) IN
             IF d.exc # "none" THEN Raises(s1, d.exc)
             ELSE handle_size(s1, 0, d.msg)

\* The frames a server sends: a HeartbeatResponse, a CallResponse with a
\* payload of two bytes, eight bytes whose size field says 8, and a frame
\* whose type is no member of MsgType.
FrameKinds == {"heartbeat_response", "call_response", "short", "unknown"}

SentMessage(kind, n) ==
    CASE kind = "heartbeat_response" ->
            Message(CTRL_HEARTBEAT_RESPONSE, 24, n, 7, 0, <<>>)
      [] kind = "call_response" ->
            Message(HLA_CALL_RESPONSE, 26, n, 7, 0, <<8, 1>>)
      [] kind = "short" ->
            Message(UNKNOWN, 8, 0, 0, 0, <<65, 66, 67, 68>>)
      [] OTHER ->
            Message(5, 24, n, 7, 0, <<>>)

Wire(kind, n) ==
    LET f == SentMessage(kind, n) IN
    IF kind = "short"
    THEN U32(f.my_msg_size) \o f.my_payload
    ELSE WireFrame(f.my_msg_size, f.my_sequence_num, f.my_session_id,
                   f.my_last_received_msg, f.my_msg_type, f.my_payload)

Streams == UNION {[1..n -> FrameKinds] : n \in 1..MaxFrames}

SocketOf(kinds) ==
    [NoSock EXCEPT
        !.sent = [i \in 1..Len(kinds) |->
                    [kind |-> kinds[i], msg |-> SentMessage(kinds[i], i)]],
        !.stream = join([i \in 1..Len(kinds) |-> Wire(kinds[i], i)])]

\* A connected socket with some frames under way; the engine has not read
\* from it yet.
SocketInit ==
    /\ sock \in {SocketOf(kinds) : kinds \in Streams}
    /\ handler = [InitHandler EXCEPT !.my_socket = TRUE,
                                     !.my_is_connection_ok = TRUE]
    /\ rti = InitRti
    /\ my_data = InitData
    /\ pc = "read"
    /\ reader = "evoke"
    /\ caller = "none"
    /\ call_args = NoArgs
    /\ message_count = 0
    /\ cur_cb = NoFrame
    /\ stack = <<>>
    /\ wire = <<>>
    /\ peer = [seq |-> 0, sid |-> 0, open |-> {}, first |-> 0,
               terminated |-> FALSE, resume |-> FALSE]
    /\ g = InitGhost

\* read_and_process calls self.my_socket.get_message (line 391).
GetMessage ==
    /\ sock.calls < MaxGetCalls
    /\ \E first \in RecvChoices, rest \in RecvChoices :
          sock' = [get_message(sock, first, rest) EXCEPT !.calls = @ + 1]
    /\ UNCHANGED <<handler, rti, my_data, pc, reader, caller, call_args,
                   message_count, cur_cb, stack, wire, peer, g>>

SocketNext == GetMessage

SocketSpec == SocketInit /\ [][SocketNext]_vars

\* ------------------------------------------------- properties of MsgSocket
\* The step is a get_message that starts with an empty receive buffer and
\* receives, whole, a size field that is less than 24.
ReadsShortSize ==
    /\ GetMessage
    /\ sock.my_recv_buffer = <<>>
    /\ Len(sock.stream) >= 4
    /\ unpack_I(SubSeq(sock.stream, 1, 4)) < 24
    /\ Len(sock'.stream) = Len(sock.stream) - 4

\* C32: a frame whose size field is less than 24 is rejected: get_message
\* raises an error, and no byte of the frame stays in the receive buffer.
C32_ShortFrameIsRejected ==
    [][ReadsShortSize =>
            /\ sock'.exc # "none"
            /\ sock'.my_recv_buffer = <<>>]_vars

\* Every frame on its way is complete and of a type the engine handles.
WellFormed ==
    \A i \in 1..Len(sock.sent) :
        sock.sent[i].kind \in {"heartbeat_response", "call_response"}

\* C33: however the bytes of well-formed frames are split over the reads,
\* get_message raises nothing, and the messages it has returned are the
\* first frames that were sent, each once, intact and in wire order.
C33_PartialReadsAreReassembled ==
    WellFormed =>
        /\ sock.exc = "none"
        /\ Len(sock.delivered) <= Len(sock.sent)
        /\ \A i \in 1..Len(sock.delivered) :
                sock.delivered[i] = sock.sent[i].msg

\* ------------------------------------------------- header on the wire
\* struct.pack('>' + format, *values) for formats made of I and Q.
RECURSIVE pack(_, _)
pack(format, values) ==
    IF format = <<>> THEN <<>>
    ELSE (IF Head(format) = "Q" THEN U64(Head(values)) ELSE U32(Head(values)))
         \o pack(Tail(format), Tail(values))

\* The struct format of the header fields to_bytes packs: CallRequest and
\* CallbackResponse use my_format '>IIQII', the base class and
\* NewSessionMessage the 'IIQQ' of package_bytes.
HeaderFormat(m) ==
    IF m.my_msg_type \in {HLA_CALL_REQUEST, HLA_CALLBACK_RESPONSE}
    THEN <<"I", "I", "Q", "I", "I">>
    ELSE <<"I", "I", "Q", "Q">>

\* The first 24 bytes of the frame the socket sends for m.
header_bytes(m) ==
    pack(HeaderFormat(m), SubSeq(to_bytes(m), 1, Len(HeaderFormat(m))))

\* The last_received_seq field of a frame: bytes 16 to 19.
last_received_seq(bytes) == unpack_I(SubSeq(bytes, 17, 20))

\* C34: every frame the engine writes carries, in the last_received_seq
\* field of its header, the sequence number of the last frame the engine
\* has processed.
C34_LastReceivedIsOnTheWire ==
    \A i \in 1..Len(wire) :
        last_received_seq(header_bytes(wire[i])) =
            handler.my_last_received_message_number

\* ------------------------------------------------------- FederateData
\* Object instances the federate ambassador has discovered
\* (hlaBounceFederateAmbassador.discover_object_instance stores them).
InstanceHandles == {"ball-1", "ball-2"}

\* What get_object_class_handle and get_attribute_handle leave in the two
\* attribute maps for one class handle: no entry, an empty dict, or a dict
\* with the handle of each attribute name resolved so far.
AttrCaches ==
    {[names |-> NoAttrMap(FALSE), handles |-> NoAttrNames(FALSE)]}
    \cup {[names |-> [NoAttrMap(TRUE) EXCEPT !.map =
                        [a \in AttrNames |-> IF a \in known
                                             THEN RtiResult(GETATTRIBUTEHANDLERESPONSE_FIELD_NUMBER)
                                             ELSE None]],
           handles |-> [NoAttrNames(TRUE) EXCEPT !.map =
                        [h \in AttrHandleValues |->
                            IF /\ h = RtiResult(GETATTRIBUTEHANDLERESPONSE_FIELD_NUMBER)
                               /\ known # {}
                            THEN CHOOSE a \in known : TRUE
                            ELSE ""]]]
          : known \in SUBSET AttrNames}

\* The containers a federate can hold when it calls clear().
FederateDataStates ==
    {[InitData EXCEPT
        !.my_connection_lost = lost,
        !.my_federate_resigned = resigned,
        !.my_attr_name_handles = [c \in ClassHandleValues |-> cache[c].names],
        !.my_attr_handle_names = [c \in ClassHandleValues |-> cache[c].handles],
        !.my_object_instance_classes = instances]
     : lost \in BOOLEAN, resigned \in BOOLEAN,
       cache \in [ClassHandleValues -> AttrCaches],
       instances \in SUBSET InstanceHandles}

DataInit ==
    /\ handler = InitHandler
    /\ rti = InitRti
    /\ my_data \in FederateDataStates
    /\ pc = "host"
    /\ reader = "none"
    /\ caller = "none"
    /\ call_args = NoArgs
    /\ message_count = 0
    /\ cur_cb = NoFrame
    /\ stack = <<>>
    /\ wire = <<>>
    /\ peer = [seq |-> 0, sid |-> 0, open |-> {}, first |-> 0,
               terminated |-> FALSE, resume |-> FALSE]
    /\ sock = NoSock
    /\ g = InitGhost

\* The federate calls my_data.clear().
Clear ==
    /\ pc = "host"
    /\ g.host_result = "none"
    /\ my_data' = clear(my_data)
    /\ g' = [g EXCEPT !.host_result = "cleared"]
    /\ UNCHANGED <<handler, rti, pc, reader, caller, call_args,
                   message_count, cur_cb, stack, wire, peer, sock>>

DataNext == Clear

DataSpec == DataInit /\ [][DataNext]_vars

\* C35: after clear() every cache of the container is empty: the
\* attribute name-to-handle and handle-to-name maps, the object instance
\* map and the list of federation executions.
C35_ClearEmptiesEveryCache ==
    g.host_result = "cleared" =>
        /\ \A c \in ClassHandleValues :
              /\ ~my_data.my_attr_name_handles[c].present
              /\ ~my_data.my_attr_handle_names[c].present
        /\ my_data.my_object_instance_classes = {}
        /\ my_data.my_federate_executions = <<>>

\* ------------------------------------------- handles of unresolved classes
\* The step ends a get_attribute_handle of the host whose request was
\* answered by its GetAttributeHandleResponse.
AttributeHandleAnswered ==
    /\ pc = "read"
    /\ caller = "get_attribute_handle"
    /\ stack = <<>>
    /\ pc' = "host"
    /\ g.cur_req # 0
    /\ g'.completed.req = g.cur_req
    /\ handler'.my_fedPro_response.my_msg_type = HLA_CALL_RESPONSE
    /\ handler'.my_fedPro_response.my_hla_msg_type =
            GETATTRIBUTEHANDLERESPONSE_FIELD_NUMBER

\* C36: a get_attribute_handle that receives its successful response
\* returns the handle and records it in both attribute maps, for any class
\* handle, resolved through get_object_class_handle before or not.
C36_HandleOfAnyClassIsCached ==
    [][AttributeHandleAnswered =>
        LET class_handle == call_args.class_handle
            attr_name == call_args.attr_name
            attribute_handle == handler'.my_fedPro_response.result
        IN  /\ g'.host_result = "ok"
            /\ g'.value = attribute_handle
            /\ my_data'.my_attr_name_handles[class_handle].present
            /\ my_data'.my_attr_name_handles[class_handle].map[attr_name] =
                    attribute_handle
            /\ my_data'.my_attr_handle_names[class_handle].map[attribute_handle] =
                    attr_name]_vars

\* ------------------------------------------------ the decoded response
\* The step ends a synchronous call of the host with poll result 1
\* (success) or -1 (the RTI answered with an exception).
CallEndsAnswered ==
    /\ pc = "read"
    /\ reader = "poll"
    /\ stack = <<>>
    /\ pc' = "host"
    /\ g.cur_req # 0
    /\ g'.host_result \in {"ok", "RTIinternalError"}
    /\ \/ /\ handler'.my_poll_result = 1
          /\ g'.completed.req = g.cur_req
       \/ /\ handler'.my_poll_result = -1
          /\ handler.my_expected_response_type = EXCEPTIONDATA_FIELD_NUMBER

\* C37: when a synchronous call ends with success or with the RTI's
\* exception, the response the handler has stored for the facade is the
\* CallResponse that satisfied the call: on success the frame that cleared
\* the expectation, on an exception the CallResponse with EXCEPTION_DATA;
\* never a frame that was read after it.
C37_StoredResponseIsTheAnswer ==
    [][CallEndsAnswered =>
        LET response == handler'.my_fedPro_response IN
        /\ response.my_msg_type = HLA_CALL_RESPONSE
        /\ handler'.my_poll_result = 1 =>
                response.my_sequence_num = g'.completed.seq
        /\ handler'.my_poll_result = -1 =>
                response.my_hla_msg_type = EXCEPTIONDATA_FIELD_NUMBER]_vars

\* ------------------------------------------- what completes an HLA call
HlaCallers ==
    {"facade", "connect", "create_fed_ex", "destroy_federation_execution",
     "get_object_class_handle", "get_attribute_handle",
     "update_attribute_values"}

\* A CallRequest of the facade is waiting for its CallResponse.
HlaCallPending ==
    /\ pc = "read"
    /\ reader = "poll"
    /\ caller \in HlaCallers
    /\ handler.my_expected_response_type
            \notin {UNKNOWN, EXCEPTIONDATA_FIELD_NUMBER}

\* The step reads a HeartbeatResponse or a NewSessionStatus.
ReadsSessionFrame ==
    \E f \in PeerFrames :
        /\ f.my_msg_type \in {CTRL_HEARTBEAT_RESPONSE, CTRL_NEW_SESSION_STATUS}
        /\ LET m == read_and_process_frame(Cur, f) IN
           /\ Commit(m)
           /\ PeerSends(m, f)

\* C38: a HeartbeatResponse or NewSessionStatus read while an HLA call is
\* pending leaves the call pending: the expected response type stays as
\* it was, whatever its value and the frame's sequence number.
C38_OnlyCallResponseCompletes ==
    [][(HlaCallPending /\ ReadsSessionFrame) =>
            handler'.my_expected_response_type =
                handler.my_expected_response_type]_vars

\* ------------------------------------------------ failed handle queries
\* The step ends a handle query of the host that failed: the RTI answered
\* with an exception, the read failed or no response came (the facade
\* raises RTIinternalError).
HandleQueryFails ==
    /\ pc = "read"
    /\ caller \in {"get_object_class_handle", "get_attribute_handle"}
    /\ stack = <<>>
    /\ pc' = "host"
    /\ g'.host_result = "RTIinternalError"

\* C39: a handle query that fails leaves every handle cache as it was
\* before the call.
C39_FailedQueryKeepsCaches ==
    [][HandleQueryFails =>
            /\ rti'.my_obj_name_handles = rti.my_obj_name_handles
            /\ rti'.my_obj_handle_names = rti.my_obj_handle_names
            /\ my_data' = my_data]_vars

\* A get_attribute_handle of a resolved class has failed and its attribute
\* is still unknown.
C39_Witness ==
    /\ pc = "host"
    /\ g.host_result = "RTIinternalError"
    /\ handler.my_poll_result \in {0, -1}
    /\ \E q \in peer.open :
          /\ q.id = g.requests
          /\ q.my_request_type = GETATTRIBUTEHANDLERESPONSE_FIELD_NUMBER
    /\ \E c \in ClassHandles :
          /\ my_data.my_attr_name_handles[c].present
          /\ \A a \in AttrNames : my_data.my_attr_name_handles[c].map[a] = None

\* ------------------------------------------- one callback per invocation
\* The step hands a CallbackRequest to a FederateAmbassador method (a
\* return from a nested facade call into the method pops the stack).
DeliversCallback ==
    /\ pc = "read"
    /\ pc' = "amb"
    /\ stack' = stack

\* An ambassador method that evoke_callback invoked has called the facade
\* and waits for that call.
EvokedCallbackSuspended ==
    \E i \in 1..Len(stack) : stack[i].reader = "evoke"

\* The ambassador method that evoke_callback invoked is over.
TopCallbackEnds ==
    /\ pc = "amb"
    /\ reader = "evoke"
    /\ stack = <<>>
    /\ stack' = <<>>
    /\ pc' # "amb"

\* C40: one evoke_callback delivers at most one callback: none is
\* delivered while the method of an earlier one of the same invocation is
\* still executing, and when that method is over the invocation is over
\* too, whatever frames are still to be read.
C40_OneCallbackPerEvoke ==
    [][/\ DeliversCallback => ~EvokedCallbackSuspended
       /\ TopCallbackEnds => pc' = "host"]_vars

====
